---- MODULE Spec2Model ----
(***************************************************************************)
(* Air Drum Kit (main.py): the frame loop, the menu/play key dispatch, the *)
(* hit resolution over the drum zones and the per-zone sound debouncing.   *)
(* One step of the model is one iteration of the `while True` loop.        *)
(***************************************************************************)
EXTENDS Integers, Sequences, FiniteSets, TLC

(* ---------------- configuration (main.py 25-31) ---------------- *)
WINDOW_WIDTH ==
  640

WINDOW_HEIGHT ==
  480

STATE_MENU ==
  0

STATE_PLAY ==
  1

(* ---------------- drum zones (main.py 73-98) ---------------- *)
ZONE_HEIGHT ==
  100

bottom_row_drums ==
  <<"Kick", "Snare", "Hi-Hat", "Tom1", "Tom2">>

number_of_drums ==
  Len(bottom_row_drums)

zone_width ==
  WINDOW_WIDTH \div number_of_drums

crash_cymbal_width ==
  WINDOW_WIDTH \div 4

\* Iteration order of the drum_zones dictionary (insertion order).
DrumOrder ==
  bottom_row_drums \o <<"Crash">>

DrumNames ==
  {DrumOrder[i] : i \in 1..Len(DrumOrder)}

BottomIndex(name) ==
  (CHOOSE i \in 1..number_of_drums : bottom_row_drums[i] = name) - 1

\* 'box' is (x1, y1, x2, y2)
drum_zones ==
  [name \in DrumNames |->
     IF name = "Crash"
     THEN [box |-> <<0, 0, crash_cymbal_width, ZONE_HEIGHT>>, is_crash |-> TRUE]
     ELSE LET x_position == BottomIndex(name) * zone_width
              y_position == WINDOW_HEIGHT - ZONE_HEIGHT
          IN  [box |-> <<x_position, y_position, x_position + zone_width, WINDOW_HEIGHT>>,
               is_crash |-> FALSE]]

(* ---------------- helper (main.py 212-224) ---------------- *)
is_point_inside_zone_strict(point_x, point_y, zone_boundaries) ==
  LET x1 == zone_boundaries[1]
      y1 == zone_boundaries[2]
      x2 == zone_boundaries[3]
      y2 == zone_boundaries[4]
  IN  x1 < point_x /\ point_x < x2 /\ y1 < point_y /\ point_y < y2

is_point_inside_zone(point_x, point_y, zone_boundaries) ==
  LET x1 == zone_boundaries[1]
      y1 == zone_boundaries[2]
      x2 == zone_boundaries[3]
      y2 == zone_boundaries[4]
  IN  x1 <= point_x /\ point_x <= x2 /\ y1 <= point_y /\ point_y <= y2

(* ---------------- keyboard (main.py 335-345, 399-404) ---------------- *)
ord_p ==
  112

ord_c ==
  99

ord_b ==
  98

ord_q ==
  113

\* cv2.waitKey(1) & 0xFF : the low eight bits of the polled value; waitKey
\* returns -1 when no key is pending, which the mask turns into 255.
MaskKey(raw) ==
  raw % 256

\* Values cv2.waitKey(1) returns in the model: -1 for no key (a value none
\* of the branches knows, once masked) and the four command keys.
RawKeys ==
  {-1, ord_b, ord_c, ord_p, ord_q}

(* ---------------- detection inputs (main.py 359-373) ---------------- *)
\* the most contours one frame holds in the model
MaxContours ==
  2

\* A contour is its bounding rectangle (x, y, w, h), as cv2.boundingRect
\* gives it, and its area, as cv2.contourArea gives it.  Centres of the
\* rectangles below: (128,430) on the edge shared by Kick and Snare;
\* (64,380) on Kick's top edge, with an area below, at and above 500;
\* (160,100) on the bottom-right corner of Crash.
CandidateContours ==
  { [x |-> 100, y |-> 400, w |-> 56, h |-> 60, area |-> 501],
    [x |-> 40,  y |-> 360, w |-> 48, h |-> 40, area |-> 499],
    [x |-> 40,  y |-> 360, w |-> 48, h |-> 40, area |-> 500],
    [x |-> 40,  y |-> 360, w |-> 48, h |-> 40, area |-> 501],
    [x |-> 130, y |-> 80,  w |-> 60, h |-> 40, area |-> 600] }

SameRect(c, d) ==
  c.x = d.x /\ c.y = d.y /\ c.w = d.w /\ c.h = d.h

\* Lists of at most n contours; the external contours of one mask are
\* separate regions, so no two of a list have the same bounding rectangle.
RECURSIVE SeqsUpTo(_, _)
SeqsUpTo(S, n) ==
  IF n = 0 THEN {<<>>}
  ELSE LET shorter == SeqsUpTo(S, n - 1)
       IN  shorter \cup {Append(s, e) : s \in {t \in shorter : Len(t) = n - 1}, e \in S}

DistinctRects(s) ==
  \A i, j \in DOMAIN s : i # j => ~SameRect(s[i], s[j])

\* the lists cv2.findContours may return for one frame
Frames ==
  {s \in SeqsUpTo(CandidateContours, MaxContours) : DistinctRects(s)}

center_x(contour) ==
  contour.x + contour.w \div 2

center_y(contour) ==
  contour.y + contour.h \div 2

\* main.py 370: if contour_area > 500
AreaPasses_atleast(contour_area) ==
  contour_area >= 500

AreaPasses(contour_area) ==
  contour_area > 500

(* ---------------- play branch (main.py 363-393) ---------------- *)
AllFalse ==
  [name \in DrumNames |-> FALSE]

\* main.py 386: if not sound_is_locked[drum_name]
TriggerAllowed_always(locked) ==
  TRUE

TriggerAllowed(locked) ==
  ~locked

\* main.py 379-388 for one centre, from the i-th zone on; st carries
\* drums_being_hit, sound_is_locked and the play() calls made so far.
RECURSIVE ScanZones_break(_, _, _, _)
ScanZones_break(i, cx, cy, st) ==
  IF i > Len(DrumOrder) THEN st
  ELSE LET drum_name == DrumOrder[i]
       IN  IF is_point_inside_zone(cx, cy, drum_zones[drum_name].box)
           THEN [hit    |-> [st.hit EXCEPT ![drum_name] = TRUE],
                 locked |-> [st.locked EXCEPT ![drum_name] = TRUE],
                 played |-> IF TriggerAllowed(st.locked[drum_name])
                            THEN Append(st.played, drum_name)
                            ELSE st.played]
           ELSE ScanZones_break(i + 1, cx, cy, st)

RECURSIVE ScanZones(_, _, _, _)
ScanZones(i, cx, cy, st) ==
  IF i > Len(DrumOrder) THEN st
  ELSE LET drum_name == DrumOrder[i]
       IN  IF is_point_inside_zone(cx, cy, drum_zones[drum_name].box)
           THEN ScanZones(i + 1, cx, cy,
                  [hit    |-> [st.hit EXCEPT ![drum_name] = TRUE],
                   locked |-> [st.locked EXCEPT ![drum_name] = TRUE],
                   played |-> IF TriggerAllowed(st.locked[drum_name])
                              THEN Append(st.played, drum_name)
                              ELSE st.played])
           ELSE ScanZones(i + 1, cx, cy, st)

\* main.py 366-388: every contour in list order
RECURSIVE ScanContours(_, _)
ScanContours(contours, st) ==
  IF contours = <<>> THEN st
  ELSE LET contour == Head(contours)
       IN  ScanContours(Tail(contours),
             IF AreaPasses(contour.area)
             THEN ScanZones(1, center_x(contour), center_y(contour), st)
             ELSE st)

\* main.py 391-393: reset sound locks when object leaves the zone
ResetLocks_none(hit, locked) ==
  locked

ResetLocks_all(hit, locked) ==
  AllFalse

ResetLocks(hit, locked) ==
  [drum_name \in DrumNames |-> IF ~hit[drum_name] THEN FALSE ELSE locked[drum_name]]

\* main.py 363-393: the whole hit-resolution and debounce pass of one frame
ProcessFrame(contours, locked) ==
  LET st == ScanContours(contours, [hit |-> AllFalse, locked |-> locked, played |-> <<>>])
  IN  [hit |-> st.hit, locked |-> ResetLocks(st.hit, st.locked), played |-> st.played]

(* ---------------- key dispatch ---------------- *)
\* main.py 337-345: result of the menu branch's if/elif chain
MenuDispatch_keepcredits(key, credits) ==
  IF key = ord_p THEN [state |-> STATE_PLAY, credits |-> credits, quit |-> FALSE]
  ELSE IF key = ord_c THEN [state |-> STATE_MENU, credits |-> TRUE, quit |-> FALSE]
  ELSE IF key = ord_b THEN [state |-> STATE_MENU, credits |-> FALSE, quit |-> FALSE]
  ELSE IF key = ord_q THEN [state |-> STATE_MENU, credits |-> credits, quit |-> TRUE]
  ELSE [state |-> STATE_MENU, credits |-> credits, quit |-> FALSE]

MenuDispatch(key, credits) ==
  IF key = ord_p THEN [state |-> STATE_PLAY, credits |-> FALSE, quit |-> FALSE]
  ELSE IF key = ord_c THEN [state |-> STATE_MENU, credits |-> TRUE, quit |-> FALSE]
  ELSE IF key = ord_b THEN [state |-> STATE_MENU, credits |-> FALSE, quit |-> FALSE]
  ELSE IF key = ord_q THEN [state |-> STATE_MENU, credits |-> credits, quit |-> TRUE]
  ELSE [state |-> STATE_MENU, credits |-> credits, quit |-> FALSE]

\* main.py 400-404: result of the play branch's if/elif chain
PlayDispatch_credits(key, credits) ==
  IF key = ord_b THEN [state |-> STATE_MENU, credits |-> FALSE, quit |-> FALSE]
  ELSE IF key = ord_q THEN [state |-> STATE_PLAY, credits |-> credits, quit |-> TRUE]
  ELSE IF key = ord_c THEN [state |-> STATE_MENU, credits |-> TRUE, quit |-> FALSE]
  ELSE [state |-> STATE_PLAY, credits |-> credits, quit |-> FALSE]

PlayDispatch(key, credits) ==
  IF key = ord_b THEN [state |-> STATE_MENU, credits |-> FALSE, quit |-> FALSE]
  ELSE IF key = ord_q THEN [state |-> STATE_PLAY, credits |-> credits, quit |-> TRUE]
  ELSE [state |-> STATE_PLAY, credits |-> credits, quit |-> FALSE]

(* ---------------- trigger bookkeeping ---------------- *)
\* the number of hit runs of one zone that one counting window covers
MaxRuns ==
  2

\* how often drum_name occurs in a list of play() calls
RECURSIVE Occurrences(_, _)
Occurrences(calls, drum_name) ==
  IF calls = <<>> THEN 0
  ELSE (IF Head(calls) = drum_name THEN 1 ELSE 0) + Occurrences(Tail(calls), drum_name)

\* A hit run of a zone starts in a play frame that hits the zone when the
\* play frame before it did not (or there was none).
RunStarts(was_hit, is_hit) ==
  is_hit /\ ~was_hit

\* Hit runs and play() calls of one zone, counted over a window of MaxRuns
\* runs: the play frame in which the zone is left after its MaxRuns-th run
\* opens a new window.
WindowCloses(runs, is_hit) ==
  ~is_hit /\ runs = MaxRuns

CountRun(runs, started, is_hit) ==
  IF started THEN runs + 1
  ELSE IF WindowCloses(runs, is_hit) THEN 0 ELSE runs

CountTriggers(runs, count, is_hit, calls) ==
  LET total == IF WindowCloses(runs, is_hit) THEN calls ELSE count + calls
  IN  IF total > MaxRuns THEN MaxRuns + 1 ELSE total

(* ---------------- state ---------------- *)
VARIABLES
  current_app_state,   \* main.py 31
  showing_credits,     \* main.py 206
  sound_is_locked,     \* main.py 227
  running,             \* TRUE while the `while True` loop has not hit a break
  frame_captured,      \* main.py 318, of the last iteration
  key_pressed,         \* main.py 335 / 399, of the last iteration that polled
  detected_contours,   \* main.py 359, of the last play frame
  drums_being_hit,     \* main.py 363, of the last play frame
  played,              \* drum_sounds[..].play() calls of the last iteration, in order
  is_currently_hit,    \* main.py 293: the tint flags of the last rendered drum kit
  hit_runs,            \* history: hit runs of each zone in the current window
  triggers             \* history: play() calls for each zone in the current window

vars ==
  <<current_app_state, showing_credits, sound_is_locked, running, frame_captured,
    key_pressed, detected_contours, drums_being_hit, played, is_currently_hit,
    hit_runs, triggers>>

\* The state when the loop is entered.  The loop's locals do not exist yet;
\* they start as "nothing seen": no key (255), no contours, nothing hit.
Init ==
  /\ current_app_state = STATE_MENU
  /\ showing_credits = FALSE
  /\ sound_is_locked = AllFalse
  /\ running = TRUE
  /\ frame_captured = TRUE
  /\ key_pressed = 255
  /\ detected_contours = <<>>
  /\ drums_being_hit = AllFalse
  /\ played = <<>>
  /\ is_currently_hit = AllFalse
  /\ hit_runs = [name \in DrumNames |-> 0]
  /\ triggers = [name \in DrumNames |-> 0]

(* ---------------- the loop body (main.py 316-408) ---------------- *)
\* main.py 318-320: webcam.read() fails, break
FrameReadFails_retry ==
  /\ running
  /\ frame_captured' = FALSE
  /\ played' = <<>>
  /\ UNCHANGED <<current_app_state, showing_credits, sound_is_locked, running, key_pressed,
                 detected_contours, drums_being_hit, is_currently_hit, hit_runs, triggers>>

FrameReadFails ==
  /\ running
  /\ frame_captured' = FALSE
  /\ running' = FALSE
  /\ played' = <<>>
  /\ UNCHANGED <<current_app_state, showing_credits, sound_is_locked, key_pressed,
                 detected_contours, drums_being_hit, is_currently_hit, hit_runs, triggers>>

\* main.py 328-345: one iteration in the menu state (menu or credits screen)
MenuFrame_unlock(raw_key) ==
  /\ running
  /\ current_app_state = STATE_MENU
  /\ frame_captured' = TRUE
  /\ key_pressed' = MaskKey(raw_key)
  /\ \E d \in {MenuDispatch(key_pressed', showing_credits)} :
         /\ current_app_state' = d.state
         /\ showing_credits' = d.credits
         /\ running' = ~d.quit
  /\ played' = <<>>
  /\ sound_is_locked' = AllFalse
  /\ UNCHANGED <<detected_contours, drums_being_hit, is_currently_hit, hit_runs, triggers>>

MenuFrame(raw_key) ==
  /\ running
  /\ current_app_state = STATE_MENU
  /\ frame_captured' = TRUE
  /\ key_pressed' = MaskKey(raw_key)
  /\ \E d \in {MenuDispatch(key_pressed', showing_credits)} :
         /\ current_app_state' = d.state
         /\ showing_credits' = d.credits
         /\ running' = ~d.quit
  /\ played' = <<>>
  /\ UNCHANGED <<sound_is_locked, detected_contours, drums_being_hit, is_currently_hit,
                 hit_runs, triggers>>

\* main.py 350-404: one iteration in the play state
\* (the hit pass, main.py 363-396, comes before the key poll, main.py 399)
PlayFrame(contours) ==
  /\ running
  /\ current_app_state = STATE_PLAY
  /\ frame_captured' = TRUE
  /\ detected_contours' = contours
  /\ \E r \in {ProcessFrame(contours, sound_is_locked)} :
         /\ drums_being_hit' = r.hit
         /\ sound_is_locked' = r.locked
         /\ played' = r.played
         /\ is_currently_hit' = r.locked
         /\ hit_runs' = [name \in DrumNames |->
              CountRun(hit_runs[name], RunStarts(drums_being_hit[name], r.hit[name]),
                       r.hit[name])]
         /\ triggers' = [name \in DrumNames |->
              CountTriggers(hit_runs[name], triggers[name], r.hit[name],
                            Occurrences(r.played, name))]
  /\ \E raw_key \in RawKeys :
         /\ key_pressed' = MaskKey(raw_key)
         /\ \E d \in {PlayDispatch(key_pressed', showing_credits)} :
                /\ current_app_state' = d.state
                /\ showing_credits' = d.credits
                /\ running' = ~d.quit

Next ==
  \/ FrameReadFails
  \/ \E raw_key \in RawKeys : MenuFrame(raw_key)
  \/ \E contours \in Frames : PlayFrame(contours)

Spec ==
  Init /\ [][Next]_vars

TypeOK ==
  /\ current_app_state \in {STATE_MENU, STATE_PLAY}
  /\ showing_credits \in BOOLEAN
  /\ sound_is_locked \in [DrumNames -> BOOLEAN]
  /\ running \in BOOLEAN
  /\ frame_captured \in BOOLEAN
  /\ key_pressed \in 0..255
  /\ detected_contours \in Frames
  /\ drums_being_hit \in [DrumNames -> BOOLEAN]
  /\ is_currently_hit \in [DrumNames -> BOOLEAN]
  /\ hit_runs \in [DrumNames -> 0..MaxRuns]
  /\ triggers \in [DrumNames -> 0..(MaxRuns + 1)]

(* ======================= properties ======================= *)
\* The centre of a contour's bounding rectangle lies in the closed rectangle
\* of a zone, written out on the zone's corner coordinates.
CentroidIn(contour, name) ==
  /\ drum_zones[name].box[1] <= contour.x + contour.w \div 2
  /\ contour.x + contour.w \div 2 <= drum_zones[name].box[3]
  /\ drum_zones[name].box[2] <= contour.y + contour.h \div 2
  /\ contour.y + contour.h \div 2 <= drum_zones[name].box[4]

\* Some region of the frame that the tracker keeps (area above 500) has its
\* centre in the zone.
ObjectIn(contours, name) ==
  \E i \in DOMAIN contours : contours[i].area > 500 /\ CentroidIn(contours[i], name)

\* The step is one iteration of the loop, in the given state, that got a frame.
FrameStepIn(state) ==
  running /\ current_app_state = state /\ frame_captured'

\* C1 - Debounce single-fire.  Runs are taken in the sequence of play frames
\* (menu frames compute no HitState).  In every play frame, each zone's sound
\* is played once if the frame starts a hit run of the zone (the zone is hit
\* now and was not hit in the play frame before), and not at all otherwise:
\* neither on a later frame of the run nor while the zone is not hit.
C1_DebounceSingleFire ==
  [][FrameStepIn(STATE_PLAY) =>
       \A name \in DrumNames :
         Occurrences(played', name) =
           IF drums_being_hit'[name] /\ ~drums_being_hit[name] THEN 1 ELSE 0]_vars

\* a later frame of a hit run: the zone is still hit, nothing was played, and
\* the run has had its one trigger
C1_Witness ==
  /\ running /\ current_app_state = STATE_PLAY /\ key_pressed # ord_p
  /\ played = <<>>
  /\ \E name \in DrumNames :
       drums_being_hit[name] /\ hit_runs[name] = 1 /\ triggers[name] = 1

\* C2 - Debounce re-arm.  Once a zone is in (or has finished) its second hit
\* run of a window, i.e. after a run, a gap of at least one play frame
\* without a hit and the start of another run, exactly two triggers were
\* emitted for it.
C2_DebounceRearm ==
  \A name \in DrumNames : hit_runs[name] = 2 => triggers[name] = 2

C2_Witness ==
  \E name \in DrumNames :
    hit_runs[name] = 2 /\ triggers[name] = 2 /\ drums_being_hit[name] /\ played = <<name>>

\* C3 - Independence across zones.  In every play frame, for every zone: its
\* lock afterwards is whether an object is in it, and its sound is played
\* once if an object is in it and its own lock was open, and not otherwise -
\* whatever the other zones' hits and locks are.
C3_ZoneIndependence ==
  [][FrameStepIn(STATE_PLAY) =>
       \A name \in DrumNames :
         /\ sound_is_locked'[name] = ObjectIn(detected_contours', name)
         /\ Occurrences(played', name) =
              IF sound_is_locked'[name] /\ ~sound_is_locked[name] THEN 1 ELSE 0]_vars

\* one centre on the edge shared by Kick and Snare triggered both
C3_Witness ==
  /\ Len(detected_contours) = 1
  /\ center_x(detected_contours[1]) = drum_zones["Kick"].box[3]
  /\ center_x(detected_contours[1]) = drum_zones["Snare"].box[1]
  /\ played = <<"Kick", "Snare">>

\* points on the four edges of a rectangle, and points one unit outside them
EdgePoints(b) ==
  LET xs == {b[1], (b[1] + b[3]) \div 2, b[3]}
      ys == {b[2], (b[2] + b[4]) \div 2, b[4]}
  IN  {<<x, y>> : x \in {b[1], b[3]}, y \in ys} \cup {<<x, y>> : x \in xs, y \in {b[2], b[4]}}

OutsidePoints(b) ==
  LET xs == {b[1], (b[1] + b[3]) \div 2, b[3]}
      ys == {b[2], (b[2] + b[4]) \div 2, b[4]}
  IN  {<<x, y>> : x \in {b[1] - 1, b[3] + 1}, y \in ys} \cup
      {<<x, y>> : x \in xs, y \in {b[2] - 1, b[4] + 1}}

\* C4 - Hit Resolver correctness.  After a play frame, drums_being_hit of a
\* zone is true exactly when a detected object of the frame has its centre in
\* the zone's closed rectangle (so no object, nothing hit); the containment
\* test takes every point on an edge of a zone as inside and every point one
\* unit outside an edge as outside.
C4_HitResolver ==
  \A name \in DrumNames :
    /\ drums_being_hit[name] <=> ObjectIn(detected_contours, name)
    /\ \A pt \in EdgePoints(drum_zones[name].box) :
         is_point_inside_zone(pt[1], pt[2], drum_zones[name].box)
    /\ \A pt \in OutsidePoints(drum_zones[name].box) :
         ~is_point_inside_zone(pt[1], pt[2], drum_zones[name].box)

\* a detected centre exactly on Kick's top edge, and not in Snare, hit Kick only
C4_Witness ==
  /\ \E i \in DOMAIN detected_contours :
       /\ center_y(detected_contours[i]) = drum_zones["Kick"].box[2]
       /\ detected_contours[i].area > 500
  /\ drums_being_hit["Kick"] /\ ~drums_being_hit["Snare"]

\* C5 as stated - a region whose area is not below 500 survives as a
\* DetectedObject: it hits the zone its centre is in.
C5_AsStated ==
  \A name \in DrumNames : \A i \in DOMAIN detected_contours :
    (detected_contours[i].area >= 500 /\ CentroidIn(detected_contours[i], name))
      => drums_being_hit[name]

\* C5 - Noise rejection, amended.  A region is discarded exactly when its
\* area is at most 500: a zone in which every region of the frame has area
\* at most 500 is not hit, not triggered and not locked, and a region of
\* area above 500 hits the zone its centre is in.
C5_NoiseRejection ==
  \A name \in DrumNames :
    /\ (\A i \in DOMAIN detected_contours :
          CentroidIn(detected_contours[i], name) => detected_contours[i].area <= 500)
         => (/\ ~drums_being_hit[name]
             /\ ~sound_is_locked[name]
             /\ Occurrences(played, name) = 0)
    /\ \A i \in DOMAIN detected_contours :
         (detected_contours[i].area > 500 /\ CentroidIn(detected_contours[i], name))
           => drums_being_hit[name]

\* a region of area 499 with its centre in Kick left Kick unhit
C5_Witness ==
  /\ current_app_state = STATE_PLAY
  /\ \E i \in DOMAIN detected_contours :
       detected_contours[i].area = 499 /\ CentroidIn(detected_contours[i], "Kick")
  /\ ~drums_being_hit["Kick"] /\ ~sound_is_locked["Kick"]

\* C6 - Application state transitions.  In the menu 'p' moves to play, 'c'
\* sets showing_credits, 'b' clears it; in play 'b' moves to the menu and
\* clears showing_credits; and no step leads to the play state with
\* showing_credits set.
C6_AppTransitions ==
  [][/\ FrameStepIn(STATE_MENU) =>
          /\ key_pressed' = ord_p => current_app_state' = STATE_PLAY
          /\ key_pressed' = ord_c => showing_credits' = TRUE
          /\ key_pressed' = ord_b => showing_credits' = FALSE
     /\ FrameStepIn(STATE_PLAY) =>
          (key_pressed' = ord_b =>
             current_app_state' = STATE_MENU /\ showing_credits' = FALSE)
     /\ ~(current_app_state' = STATE_PLAY /\ showing_credits')]_vars

\* play was entered with 'p'
C6_Witness ==
  /\ current_app_state = STATE_PLAY /\ key_pressed = ord_p /\ ~showing_credits
  /\ frame_captured /\ running

\* C7 - State transition closure.  A menu frame that polls a key other than
\* p, c, b, q (no key is 255) and a play frame that polls a key other than
\* b, q leave current_app_state and showing_credits as they were.
C7_TransitionClosure ==
  [][/\ (FrameStepIn(STATE_MENU) /\ key_pressed' \notin {ord_p, ord_c, ord_b, ord_q})
          => UNCHANGED <<current_app_state, showing_credits>>
     /\ (FrameStepIn(STATE_PLAY) /\ key_pressed' \notin {ord_b, ord_q})
          => UNCHANGED <<current_app_state, showing_credits>>]_vars

\* 'c' was polled in the play state and the state is still play
C7_Witness ==
  current_app_state = STATE_PLAY /\ key_pressed = ord_c /\ running /\ frame_captured

\* C8 - Loop exit paths.  An iteration ends the loop exactly when the frame
\* read fails or the polled key is 'q'; an iteration whose frame read fails
\* plays nothing and changes neither the application state, the credits
\* flag, the locks nor the results of the last hit pass.
C8_LoopExit ==
  [][running =>
       /\ ~running' <=> (~frame_captured' \/ key_pressed' = ord_q)
       /\ ~frame_captured' =>
            /\ played' = <<>>
            /\ UNCHANGED <<current_app_state, showing_credits, sound_is_locked,
                           detected_contours, drums_being_hit, key_pressed>>]_vars

\* a failed read ended the loop in the play state with a lock still set
C8_Witness ==
  /\ ~running /\ ~frame_captured /\ current_app_state = STATE_PLAY
  /\ \E name \in DrumNames : sound_is_locked[name]

\* C9 - Lock mirrors the current frame.  From the rendering of a play frame
\* on, every zone's lock equals its HitState of that frame, and the zone was
\* drawn tinted exactly when a detected object of that frame was in it.
C9_LockMirrorsFrame ==
  \A name \in DrumNames :
    /\ sound_is_locked[name] = drums_being_hit[name]
    /\ is_currently_hit[name] = ObjectIn(detected_contours, name)

\* a play frame drew Crash tinted and Kick untinted
C9_Witness ==
  /\ current_app_state = STATE_PLAY /\ running /\ frame_captured
  /\ is_currently_hit["Crash"] /\ ~is_currently_hit["Kick"]

\* C10 - Menu frames do not touch the debouncer.  A frame processed in the
\* menu state plays nothing and leaves every lock as it was.
C10_MenuKeepsLocks ==
  [][FrameStepIn(STATE_MENU) =>
       played' = <<>> /\ sound_is_locked' = sound_is_locked]_vars

\* back in the play state through 'p' with a zone still locked
C10_Witness ==
  /\ current_app_state = STATE_PLAY /\ key_pressed = ord_p
  /\ \E name \in DrumNames : sound_is_locked[name]
====
